---- MODULE Spec2Model ----
(***************************************************************************)
(* State-machine model of the SSHSshje monitoring API                      *)
(* (src/sshsshje_api.py): the SSH connection pool, the command runner      *)
(* execute_ssh_command, the WebSocket ConnectionManager, the background    *)
(* broadcast loop and the diagnostics health score.                        *)
(*                                                                         *)
(* The server runs on one asyncio event loop.  paramiko calls are blocking *)
(* and contain no await, so a handler is modelled as one atomic action     *)
(* from one real suspension point (asyncio.sleep, WebSocket accept/send)   *)
(* to the next.                                                            *)
(***************************************************************************)
EXTENDS Integers, Sequences, FiniteSets, TLC

\* ------------------------------------------------------------------ bounds
\* Largest max_connections the pool is constructed with (constructor
\* parameter, src line 58).
MaxConnBound == 2

\* Channel identities (paramiko.SSHClient objects).  One more than the
\* largest pool, so that a fresh object always differs from every pooled one.
ChannelIds == 1..(MaxConnBound + 1)

\* Direct callers of the pool's get_connection / release_connection.
Callers == {"a", "b"}

NoChannel == 0

\* Exit statuses a remote command can report (recv_exit_status).
ExitStatuses == {0, 1, -1}

\* Reasons for which exec_command / read / decode raise inside the try block.
ExecErrors == {"timeout", "channel closed", "decode error"}

\* What the remote side does with one executed command.
ExecOutcomes ==
    [kind : {"exit"}, code : ExitStatuses, error : {"none"}]
    \cup [kind : {"throw"}, code : {0}, error : ExecErrors]

VARIABLES
    max_connections,   \* SSHConnectionPool.max_connections
    pool,              \* SSHConnectionPool._pool      (list of channels)
    in_use,            \* SSHConnectionPool._in_use    (set of channels)
    alive,             \* channels whose transport still answers (remote side)
    held,              \* caller -> channels it got and has not yet released
    last,              \* the latest pool / runner operation and its effect
    active_connections,\* ConnectionManager.active_connections (list)
    ws_pc,             \* per WebSocket: where its /ws handler is suspended
    ws_closed,         \* WebSockets on which a send (or accept) now raises
    ws_init,           \* per WebSocket, until its first cycle starts: what
                       \* became of the initial snapshot
    bl_pc,             \* where broadcast_system_updates is suspended
    bl_saw,            \* whether the current cycle found a subscriber
    bl_calls,          \* execute_ssh_command calls made by the current cycle
    bl_err,            \* whether the current cycle raised an exception
    bc_i,              \* broadcast: position of the list iterator
    bc_cur,            \* broadcast: "connection", the socket being sent to
    bc_dead,           \* broadcast: dead_connections
    bc_ok,             \* broadcast: sockets the current fan-out delivered to
    bc_start,          \* broadcast: sockets registered when the fan-out began
    bc_sent,           \* broadcast: per socket, the sends the fan-out made
    removed,           \* sockets a broadcast has removed from the registry
    diag_in,           \* get_diagnostics: what the three collectors returned
    diag_out,          \* get_diagnostics: its response
    auth_cfg,          \* ENABLE_AUTH and API_KEY read from the environment
    http,              \* the latest HTTP request and the response it got
    metrics_in,        \* get_system_metrics: what the five commands returned
    metrics_out,       \* get_system_metrics: the payload built from them
    apps_in,           \* application health: what each endpoint answered
    apps_out,          \* application health: the summary built from them
    loop_running,      \* the task the event loop's thread is executing
    loop_client,       \* the channel that task has checked out
    task_pc            \* per task: idle, ready to run, or inside which call

poolVars == <<max_connections, pool, in_use, alive, held, last>>

wsVars == <<active_connections, ws_pc, ws_closed, ws_init>>

loopVars ==
    <<bl_pc, bl_saw, bl_calls, bl_err, bc_i, bc_cur, bc_dead, bc_ok, bc_start,
      bc_sent, removed>>

diagVars == <<diag_in, diag_out>>

httpVars == <<auth_cfg, http>>

fnVars == <<metrics_in, metrics_out, apps_in, apps_out>>

taskVars == <<loop_running, loop_client, task_pc>>

vars == <<poolVars, wsVars, loopVars, diagVars, httpVars, fnVars, taskVars>>

\* ------------------------------------------------------------- helpers
Range(s) == {s[i] : i \in 1..Len(s)}

RemoveAt(s, i) == SubSeq(s, 1, i - 1) \o SubSeq(s, i + 1, Len(s))

Min(S) == CHOOSE x \in S : \A y \in S : x <= y

\* A new paramiko.SSHClient() object: distinct from every pooled channel.
FreshChannel(p) == Min(ChannelIds \ Range(p))

\* The record kept in "last": the operation, what it returned, and its
\* effect on the pool (sizes before the call, and what changed).
OpRecord(op, who, client, outcome, evicted, opened, result, p, iu, p2, iu2) ==
    [op |-> op, who |-> who, client |-> client, outcome |-> outcome,
     evicted |-> evicted, opened |-> opened, result |-> result,
     preLen |-> Len(p), preBusy |-> Cardinality(iu),
     poolSame |-> (p2 = p), added |-> iu2 \ iu, dropped |-> iu \ iu2]

NoResult == [kind |-> "none"]

NoOp == OpRecord("init", "none", NoChannel, "none", {}, 0, NoResult,
                 <<>>, {}, <<>>, {})

\* ------------------------------------------------------ SSHConnectionPool
\* The liveness probe client.exec_command('echo "test"', timeout=5): raises
\* exactly when the transport is dead.
ProbeOk(c, al) == c \in al

\* Faulty variant of Available: the in-use test is dropped.
AvailableIgnoresInUse(c, iu) == TRUE

\* "if client not in self._in_use"
Available(c, iu) == c \notin iu

\* Faulty variant of ScanPool: a channel whose probe failed stays in the pool.
RECURSIVE ScanPoolKeepsDead(_, _, _, _, _)
ScanPoolKeepsDead(p, i, iu, al, ev) ==
    IF i > Len(p)
    THEN [pool |-> p, in_use |-> iu, alive |-> al, evicted |-> ev,
          client |-> NoChannel]
    ELSE LET c == p[i] IN
         IF c \in iu
         THEN ScanPoolKeepsDead(p, i + 1, iu, al, ev)
         ELSE IF c \in al
              THEN [pool |-> p, in_use |-> iu \cup {c}, alive |-> al,
                    evicted |-> ev, client |-> c]
              ELSE ScanPoolKeepsDead(p, i + 1, iu, al \ {c}, ev \cup {c})

\* The reuse loop "for client in self._pool".  i is the list iterator's
\* position: it advances by one per item even when the body removed the
\* current item from the list being iterated.
RECURSIVE ScanPool(_, _, _, _, _)
ScanPool(p, i, iu, al, ev) ==
    IF i > Len(p)
    THEN [pool |-> p, in_use |-> iu, alive |-> al, evicted |-> ev,
          client |-> NoChannel]
    ELSE LET c == p[i] IN
         IF ~Available(c, iu)
         THEN ScanPool(p, i + 1, iu, al, ev)
         ELSE IF ProbeOk(c, al)
              THEN [pool |-> p, in_use |-> iu \cup {c}, alive |-> al,
                    evicted |-> ev, client |-> c]
              ELSE ScanPool(RemoveAt(p, i), i + 1, iu, al \ {c}, ev \cup {c})

\* Faulty variant of PoolNotFull: the bound is tested off by one.
PoolNotFullOffByOne(p, maxc) == Len(p) <= maxc

\* Faulty variant of PoolNotFull: the pool grows whatever its size.
PoolNotFullIgnoresLimit(p, maxc) == TRUE

\* "if len(self._pool) < self.max_connections"
PoolNotFull(p, maxc) == Len(p) < maxc

\* Faulty variant of get_connection: the new channel is pooled before connect
\* is tried and stays pooled when connect fails.
GetConnectionPoolsFailed(p, iu, al, maxc, connectOk) ==
    LET s == ScanPool(p, 1, iu, al, {}) IN
    IF s.client # NoChannel
    THEN [pool |-> s.pool, in_use |-> s.in_use, alive |-> s.alive,
          evicted |-> s.evicted, client |-> s.client, opened |-> 0,
          outcome |-> "ok"]
    ELSE IF Len(s.pool) < maxc
         THEN LET c == FreshChannel(p) IN
              IF connectOk
              THEN [pool |-> Append(s.pool, c), in_use |-> s.in_use \cup {c},
                    alive |-> s.alive \cup {c}, evicted |-> s.evicted,
                    client |-> c, opened |-> 1, outcome |-> "ok"]
              ELSE [pool |-> Append(s.pool, c), in_use |-> s.in_use,
                    alive |-> s.alive, evicted |-> s.evicted,
                    client |-> NoChannel, opened |-> 1,
                    outcome |-> "connect_failure"]
         ELSE [pool |-> s.pool, in_use |-> s.in_use, alive |-> s.alive,
               evicted |-> s.evicted, client |-> NoChannel, opened |-> 0,
               outcome |-> "exhausted"]

\* get_connection on pool state (p, iu, al); connectOk is whether
\* client.connect(...) succeeds should it be attempted.
get_connection(p, iu, al, maxc, connectOk) ==
    LET s == ScanPool(p, 1, iu, al, {}) IN
    IF s.client # NoChannel
    THEN [pool |-> s.pool, in_use |-> s.in_use, alive |-> s.alive,
          evicted |-> s.evicted, client |-> s.client, opened |-> 0,
          outcome |-> "ok"]
    ELSE IF PoolNotFull(s.pool, maxc)
         THEN LET c == FreshChannel(p) IN
              IF connectOk
              THEN [pool |-> Append(s.pool, c), in_use |-> s.in_use \cup {c},
                    alive |-> s.alive \cup {c}, evicted |-> s.evicted,
                    client |-> c, opened |-> 1, outcome |-> "ok"]
              ELSE [pool |-> s.pool, in_use |-> s.in_use, alive |-> s.alive,
                    evicted |-> s.evicted, client |-> NoChannel, opened |-> 1,
                    outcome |-> "connect_failure"]
         ELSE [pool |-> s.pool, in_use |-> s.in_use, alive |-> s.alive,
               evicted |-> s.evicted, client |-> NoChannel, opened |-> 0,
               outcome |-> "exhausted"]

\* Whether this call reaches client.connect(...): no pooled channel passed
\* the probe and the pool is not full.
AttemptsConnect(p, iu, al, maxc) ==
    LET s == ScanPool(p, 1, iu, al, {}) IN
    s.client = NoChannel /\ PoolNotFull(s.pool, maxc)

\* Outcomes of client.connect(...) to choose from; one when it is not called.
ConnectChoices(p, iu, al, maxc) ==
    IF AttemptsConnect(p, iu, al, maxc) THEN BOOLEAN ELSE {TRUE}

\* Faulty variant of release_connection: a channel that is not checked out makes the
\* pool forget one that is.
ReleaseForgetsAnother(iu, client) ==
    IF client \in iu THEN iu \ {client}
    ELSE IF iu = {} THEN iu ELSE iu \ {Min(iu)}

\* release_connection: "if client in self._in_use: self._in_use.remove(client)"
release_connection(iu, client) ==
    IF client \in iu THEN iu \ {client} ELSE iu

\* HTTPException raised by get_connection for each failing outcome.
PoolError(outcome) ==
    IF outcome = "exhausted"
    THEN [kind |-> "raised", status_code |-> 503,
          detail |-> "SSH connection pool exhausted"]
    ELSE [kind |-> "raised", status_code |-> 503,
          detail |-> "Cannot connect to remote server"]

\* ---------------------------------------------------- execute_ssh_command
\* The dictionary returned on the normal path.
CommandResult(ex) ==
    [kind |-> "result", stdout |-> "out", stderr |-> "err",
     exit_status |-> ex.code, success |-> (ex.code = 0)]

\* Faulty variant of ErrorResult: the degraded result reports exit status 0.
ErrorResultStatusZero(ex) ==
    [kind |-> "result", stdout |-> "", stderr |-> ex.error,
     exit_status |-> 0, success |-> FALSE]

\* The dictionary returned by "except Exception as e".
ErrorResult(ex) ==
    [kind |-> "result", stdout |-> "", stderr |-> ex.error,
     exit_status |-> -1, success |-> FALSE]

\* Faulty variant of RunOnChannel: no except clause, the exception leaves the runner.
RunOnChannelNoExcept(ex) ==
    IF ex.kind = "exit" THEN CommandResult(ex)
    ELSE [kind |-> "raised", status_code |-> 500, detail |-> ex.error]

\* The try / except around exec_command, read, decode, recv_exit_status.
RunOnChannel(ex) ==
    IF ex.kind = "exit" THEN CommandResult(ex) ELSE ErrorResult(ex)

\* Faulty variant of FinallyRelease: the channel is released on the normal path only.
ReleaseUnlessThrown(iu, client, ex) ==
    IF ex.kind = "throw" THEN iu ELSE release_connection(iu, client)

\* "finally: ssh_pool.release_connection(client)"
FinallyRelease(iu, client, ex) == release_connection(iu, client)

\* A transport on which the command failed because the channel closed is
\* dead afterwards; a timeout or a decode error leaves it connected.
AliveAfter(al, client, ex) ==
    IF ex.kind = "throw" /\ ex.error = "channel closed"
    THEN al \ {client} ELSE al

\* execute_ssh_command as a whole: acquire (outside the try), run, release.
execute_ssh_command(p, iu, al, maxc, connectOk, ex) ==
    LET g == get_connection(p, iu, al, maxc, connectOk) IN
    IF g.outcome # "ok"
    THEN [pool |-> g.pool, in_use |-> g.in_use, alive |-> g.alive,
          evicted |-> g.evicted, client |-> NoChannel, opened |-> g.opened,
          outcome |-> g.outcome, result |-> PoolError(g.outcome)]
    ELSE [pool |-> g.pool,
          in_use |-> FinallyRelease(g.in_use, g.client, ex),
          alive |-> AliveAfter(g.alive, g.client, ex),
          evicted |-> g.evicted, client |-> g.client, opened |-> g.opened,
          outcome |-> "ok", result |-> RunOnChannel(ex)]

\* ------------------------------------------------------ get_system_metrics
\* Number of commands in get_system_metrics' "commands" dictionary.
NumMetricCommands == 5

\* One iteration of "for key, cmd in commands.items()": one
\* execute_ssh_command call on the pool state held in s.
MetricsStep(s, maxc, connectOk, ex) ==
    LET r == execute_ssh_command(s.pool, s.in_use, s.alive, maxc, connectOk, ex) IN
    [pool |-> r.pool, in_use |-> r.in_use, alive |-> r.alive,
     raised |-> (r.result.kind = "raised"), calls |-> s.calls + 1]

\* Every way the remaining k commands can go from the runs in S.  A run in
\* which get_connection raised stops there: the exception leaves the loop.
RECURSIVE MetricsRuns(_, _, _)
MetricsRuns(S, k, maxc) ==
    IF k = 0
    THEN S
    ELSE MetricsRuns(
             {s \in S : s.raised}
             \cup UNION {{MetricsStep(s, maxc, ok, ex) :
                              ok \in ConnectChoices(s.pool, s.in_use, s.alive, maxc),
                              ex \in ExecOutcomes} :
                         s \in {t \in S : ~t.raised}},
             k - 1, maxc)

\* get_system_metrics from pool state (p, iu, al): the pool state it leaves,
\* whether it raised (its "except Exception" turns any exception into an
\* HTTPException 500) and how many execute_ssh_command calls it made.
get_system_metrics(p, iu, al, maxc) ==
    MetricsRuns({[pool |-> p, in_use |-> iu, alive |-> al,
                  raised |-> FALSE, calls |-> 0]},
                NumMetricCommands, maxc)

\* ------------------------------------------------------- ConnectionManager
Subscribers == {"w1", "w2"}

\* Faulty variant of connect: the socket is put at the head of the list.
ConnectAtHead(conns, ws) == <<ws>> \o conns

\* connect, after accept(): "self.active_connections.append(websocket)"
connect(conns, ws) == Append(conns, ws)

\* Position of the first occurrence of ws in conns.
IndexOf(conns, ws) == Min({i \in 1..Len(conns) : conns[i] = ws})

\* Faulty variant of disconnect: the head of the list is removed, not the socket.
DisconnectHead(conns, ws) ==
    IF ws \in Range(conns) THEN Tail(conns) ELSE conns

\* disconnect: "if websocket in self.active_connections: remove(websocket)"
disconnect(conns, ws) ==
    IF ws \in Range(conns) THEN RemoveAt(conns, IndexOf(conns, ws)) ELSE conns

\* "for dead in dead_connections: self.disconnect(dead)"
RECURSIVE RemoveDead(_, _)
RemoveDead(conns, dead) ==
    IF dead = <<>> THEN conns
    ELSE RemoveDead(disconnect(conns, Head(dead)), Tail(dead))

\* Faulty variant of HasSubscribers: the loop collects whether or not anyone listens.
HasSubscribersAlways(conns) == TRUE

\* "if manager.active_connections:" in broadcast_system_updates
HasSubscribers(conns) == conns # <<>>

\* "if self.active_connections:" in ConnectionManager.broadcast
BroadcastHasTargets(conns) == conns # <<>>

\* Faulty variant of SendOk: a send never raises.
SendNeverRaises(ws, closed) == TRUE

\* send_json / accept on a WebSocket raises exactly when the socket is closed.
SendOk(ws, closed) == ws \notin closed

\* ---------------------------------------------------------- get_diagnostics
\* Largest number of stopped containers the container collector reports.
MaxStopped == 3

\* A field whose output failed to parse (results[key] = None); readings
\* themselves are never negative.
None == -1

\* services list of get_services_status, in the order the script reports them.
MonitoredServices == <<"ssh", "nginx", "docker", "postgresql", "redis-server">>

\* Readings around each threshold of get_diagnostics.
CpuValues == {50, 80, 81, 85, 95, None}
MemoryValues == {50, 90, 91, 95, None}
DiskValues == {50, 85, 86, 95, None}

\* int(time.time())
Timestamps == {1700000000}

\* What the remote script of get_services_status prints when the services
\* in "inactive" are not active: one entry per service, and the counts.
ServicesStatus(inactive) ==
    [services |-> [i \in 1..Len(MonitoredServices) |->
                      [service |-> MonitoredServices[i],
                       active |-> MonitoredServices[i] \notin inactive]],
     healthy_count |-> Len(MonitoredServices) - Cardinality(inactive),
     unhealthy_count |-> Len(MonitoredServices)
                           - (Len(MonitoredServices) - Cardinality(inactive))]

\* What the three collectors can hand to get_diagnostics.
DiagInputs ==
    [cpu_usage : CpuValues, memory_percent : MemoryValues,
     disk_percent : DiskValues, inactive : SUBSET Range(MonitoredServices),
     stopped : 0..MaxStopped, now : Timestamps]

\* One entry of "issues".
Issue(id, severity, category, title, resolution, auto) ==
    [id |-> id, severity |-> severity, category |-> category,
     title |-> title, resolution |-> resolution, can_auto_resolve |-> auto]

\* "for service_name, service_data in services.get('services', {}).items()":
\* the issues and the decrement for the entries from position i on.
RECURSIVE ServiceChecks(_, _, _, _)
ServiceChecks(entries, i, now, acc) ==
    IF i > Len(entries)
    THEN acc
    ELSE IF ~entries[i].active
         THEN ServiceChecks(entries, i + 1, now,
                  [issues |-> Append(acc.issues,
                       Issue(<<"service", entries[i].service, now>>,
                             "critical", "service", "service stopped",
                             "Restart service", TRUE)),
                   score |-> acc.score - 15])
         ELSE ServiceChecks(entries, i + 1, now, acc)

\* Faulty variant of ClampScore: the score is returned as computed.
ClampScoreMissing(score) == score

\* "max(0, health_score)"
ClampScore(score) == IF score > 0 THEN score ELSE 0

\* The body of get_diagnostics on readings that are all numbers.
DiagnosticsBody(in) ==
    LET a0 == [issues |-> <<>>, score |-> 100]
        a1 == IF in.cpu_usage > 80
              THEN [issues |-> Append(a0.issues,
                        Issue(<<"cpu", "high", in.now>>, "warning", "system",
                              "High CPU usage",
                              "Check running processes and optimize resource usage",
                              FALSE)),
                    score |-> a0.score - 15]
              ELSE a0
        a2 == IF in.memory_percent > 90
              THEN [issues |-> Append(a1.issues,
                        Issue(<<"memory", "high", in.now>>, "critical", "system",
                              "High memory usage",
                              "Restart memory-intensive services or increase memory",
                              FALSE)),
                    score |-> a1.score - 25]
              ELSE a1
        a3 == IF in.disk_percent > 85
              THEN [issues |-> Append(a2.issues,
                        Issue(<<"disk", "full", in.now>>, "warning", "system",
                              "Disk space low", "Clean temporary files and logs",
                              TRUE)),
                    score |-> a2.score - 20]
              ELSE a2
        svc == ServicesStatus(in.inactive)
        a4 == IF svc.unhealthy_count > 0
              THEN ServiceChecks(svc.services, 1, in.now, a3)
              ELSE a3
        a5 == IF in.stopped > 0
              THEN [issues |-> a4.issues, score |-> a4.score - in.stopped * 10]
              ELSE a4
    IN [kind |-> "ok", timestamp |-> in.now, issues |-> a5.issues,
        health_score |-> ClampScore(a5.score)]

\* get_diagnostics: comparing or indexing None raises, and the
\* "except Exception" answers with an HTTPException 500.
get_diagnostics(in) ==
    IF None \in {in.cpu_usage, in.memory_percent, in.disk_percent}
    THEN [kind |-> "raised", status_code |-> 500]
    ELSE DiagnosticsBody(in)

\* The id of an issue as text, f'service_{service_name}_{int(time.time())}',
\* given as its parts between underscores: the two words of the id (no
\* monitored service name holds an underscore) and the digits of the time.
IssueIdText(id) == <<id[1], id[2], ToString(id[3])>>

\* Readings handed to get_diagnostics before its issues are resolved:
\* numbers at or beyond each threshold, with no service, one service or
\* every service inactive.
TriageInputs ==
    {in \in DiagInputs :
        /\ in.cpu_usage \in {80, 95}
        /\ in.memory_percent \in {90, 95}
        /\ in.disk_percent \in {85, 95}
        /\ Cardinality(in.inactive) \in {0, 1, Len(MonitoredServices)}
        /\ in.stopped = 0}

\* ------------------------------------------------- actions: pool callers
GetConnection(who) ==
    \E connectOk \in ConnectChoices(pool, in_use, alive, max_connections) :
        LET g == get_connection(pool, in_use, alive, max_connections, connectOk) IN
        /\ pool' = g.pool
        /\ in_use' = g.in_use
        /\ alive' = g.alive
        /\ held' = IF g.outcome = "ok"
                   THEN [held EXCEPT ![who] = @ \cup {g.client}]
                   ELSE held
        /\ last' = OpRecord("get", who, g.client, g.outcome, g.evicted, g.opened,
                            IF g.outcome = "ok" THEN NoResult
                            ELSE PoolError(g.outcome),
                            pool, in_use, g.pool, g.in_use)
        /\ UNCHANGED <<max_connections, wsVars, loopVars, diagVars, httpVars, fnVars,
                   taskVars>>

\* A caller returns a channel it holds.
ReleaseHeld(who) ==
    \E c \in held[who] :
        /\ in_use' = release_connection(in_use, c)
        /\ held' = [held EXCEPT ![who] = @ \ {c}]
        /\ last' = OpRecord("release", who, c, "held", {}, 0, NoResult,
                            pool, in_use, pool, in_use')
        /\ UNCHANGED <<max_connections, pool, alive, wsVars, loopVars, diagVars, httpVars, fnVars,
                   taskVars>>

\* release_connection on a channel that is not checked out: one the pool
\* never had or has evicted, or one that is available.
ReleaseIdle ==
    \E c \in ChannelIds \ in_use :
        /\ in_use' = release_connection(in_use, c)
        /\ last' = OpRecord("release", "none", c,
                            IF c \in Range(pool) THEN "available" ELSE "unknown",
                            {}, 0, NoResult, pool, in_use, pool, in_use')
        /\ UNCHANGED <<max_connections, pool, alive, held, wsVars, loopVars,
                       diagVars, httpVars, fnVars,
                   taskVars>>

\* One call of execute_ssh_command: no suspension point between acquire and
\* release.
Execute ==
    \E connectOk \in ConnectChoices(pool, in_use, alive, max_connections),
       ex \in ExecOutcomes :
        LET r == execute_ssh_command(pool, in_use, alive, max_connections,
                                     connectOk, ex) IN
        /\ pool' = r.pool
        /\ in_use' = r.in_use
        /\ alive' = r.alive
        /\ last' = OpRecord("execute", "none", r.client, r.outcome, r.evicted,
                            r.opened, r.result, pool, in_use, r.pool, r.in_use)
        /\ UNCHANGED <<max_connections, held, wsVars, loopVars, diagVars, httpVars, fnVars,
                   taskVars>>

\* The remote side drops a connection.
KillChannel ==
    \E c \in alive :
        /\ alive' = alive \ {c}
        /\ UNCHANGED <<max_connections, pool, in_use, held, last, wsVars,
                       loopVars, diagVars, httpVars, fnVars,
                   taskVars>>

\* --------------------------------------------- actions: /ws handler
\* The pool state after a get_system_metrics run m.
MetricsEffect(m) ==
    /\ pool' = m.pool
    /\ in_use' = m.in_use
    /\ alive' = m.alive
    /\ UNCHANGED <<max_connections, held, last>>

\* The handler is done; the framework closes its socket.
HandlerEnds(ws) == ws_closed' = ws_closed \cup {ws}

\* "await manager.connect(websocket)" completes: accept, register, then the
\* initial get_system_metrics, up to the first send.
WSAccept(ws) ==
    /\ ws_pc[ws] = "new"
    /\ IF ~SendOk(ws, ws_closed)
       THEN /\ ws_pc' = [ws_pc EXCEPT ![ws] = "refused"]
            /\ UNCHANGED <<active_connections, ws_closed, ws_init, poolVars>>
       ELSE /\ active_connections' = connect(active_connections, ws)
            /\ \E m \in get_system_metrics(pool, in_use, alive, max_connections) :
                   /\ MetricsEffect(m)
                   /\ ws_pc' = [ws_pc EXCEPT ![ws] =
                                   IF m.raised THEN "sleep" ELSE "init_send"]
                   /\ ws_init' = [ws_init EXCEPT ![ws] =
                                     IF m.raised THEN "skipped" ELSE "none"]
            /\ UNCHANGED ws_closed
    /\ UNCHANGED <<loopVars, diagVars, httpVars, fnVars,
                   taskVars>>

\* The initial send_json completes; a failure is only logged.
WSInitSend(ws) ==
    /\ ws_pc[ws] = "init_send"
    /\ ws_pc' = [ws_pc EXCEPT ![ws] = "sleep"]
    /\ ws_init' = [ws_init EXCEPT ![ws] =
                      IF SendOk(ws, ws_closed) THEN "sent" ELSE "failed"]
    /\ UNCHANGED <<active_connections, ws_closed, poolVars, loopVars, diagVars,
                   httpVars, fnVars,
                   taskVars>>

\* "await asyncio.sleep(30)" completes; the ping is sent.
WSWake(ws) ==
    /\ ws_pc[ws] = "sleep"
    /\ ws_pc' = [ws_pc EXCEPT ![ws] = "ping_send"]
    /\ ws_init' = [ws_init EXCEPT ![ws] = "none"]
    /\ UNCHANGED <<active_connections, ws_closed, poolVars, loopVars, diagVars,
                   httpVars, fnVars,
                   taskVars>>

\* The ping's send_json completes; then get_system_metrics, up to the
\* snapshot's send.  Any exception: "break", and the handler returns.
WSPingSend(ws) ==
    /\ ws_pc[ws] = "ping_send"
    /\ IF ~SendOk(ws, ws_closed)
       THEN /\ ws_pc' = [ws_pc EXCEPT ![ws] = "send_failed"]
            /\ HandlerEnds(ws)
            /\ UNCHANGED poolVars
       ELSE \E m \in get_system_metrics(pool, in_use, alive, max_connections) :
                /\ MetricsEffect(m)
                /\ ws_pc' = [ws_pc EXCEPT ![ws] =
                                IF m.raised THEN "done" ELSE "snap_send"]
                /\ IF m.raised THEN HandlerEnds(ws) ELSE UNCHANGED ws_closed
    /\ UNCHANGED <<active_connections, ws_init, loopVars, diagVars, httpVars,
                   fnVars,
                   taskVars>>

\* The snapshot's send_json completes.
WSSnapSend(ws) ==
    /\ ws_pc[ws] = "snap_send"
    /\ IF SendOk(ws, ws_closed)
       THEN /\ ws_pc' = [ws_pc EXCEPT ![ws] = "sleep"]
            /\ UNCHANGED ws_closed
       ELSE /\ ws_pc' = [ws_pc EXCEPT ![ws] = "send_failed"]
            /\ HandlerEnds(ws)
    /\ UNCHANGED <<active_connections, ws_init, poolVars, loopVars, diagVars,
                   httpVars, fnVars,
                   taskVars>>

\* The client goes away.
ClientClose(ws) ==
    /\ ws \notin ws_closed
    /\ ws_closed' = ws_closed \cup {ws}
    /\ UNCHANGED <<active_connections, ws_pc, ws_init, poolVars, loopVars,
                   diagVars, httpVars, fnVars,
                   taskVars>>

\* --------------------------------- actions: broadcast_system_updates
\* Faulty variant of AfterCycle: no except clause, an exception ends the task.
AfterCycleUncaught(raised, next) == IF raised THEN "dead" ELSE next

\* Where the loop suspends after the try block: "except Exception" sends
\* a cycle that raised to asyncio.sleep(60); otherwise the cycle goes on to
\* next (the broadcast's first send, or asyncio.sleep(30)).
AfterCycle(raised, next) == IF raised THEN "sleep60" ELSE next

\* Top of "while True": the registry test, get_system_metrics, and
\* manager.broadcast up to its first send_json.
BLCheck ==
    /\ bl_pc = "check"
    /\ bl_saw' = (Len(active_connections) > 0)
    /\ IF ~HasSubscribers(active_connections)
       THEN /\ bl_calls' = 0
            /\ bl_err' = FALSE
            /\ bl_pc' = AfterCycle(FALSE, "sleep30")
            /\ UNCHANGED <<poolVars, bc_i, bc_cur, bc_dead, bc_ok, bc_start,
                           bc_sent>>
       ELSE \E m \in get_system_metrics(pool, in_use, alive, max_connections) :
                /\ MetricsEffect(m)
                /\ bl_calls' = m.calls
                /\ bl_err' = m.raised
                /\ bl_pc' = AfterCycle(m.raised,
                                       IF BroadcastHasTargets(active_connections)
                                       THEN "send" ELSE "sleep30")
                /\ IF ~m.raised /\ BroadcastHasTargets(active_connections)
                   THEN /\ bc_i' = 1
                        /\ bc_cur' = active_connections[1]
                        /\ bc_dead' = <<>>
                        /\ bc_ok' = {}
                        /\ bc_start' = Range(active_connections)
                        /\ bc_sent' = [ws \in Subscribers |-> 0]
                   ELSE UNCHANGED <<bc_i, bc_cur, bc_dead, bc_ok, bc_start,
                                    bc_sent>>
    /\ UNCHANGED <<removed, wsVars, diagVars, httpVars, fnVars,
                   taskVars>>

\* One send_json of manager.broadcast completes; the iterator moves on, and
\* when the list is used up the dead connections are disconnected and the
\* loop goes to sleep.
BLSend ==
    /\ bl_pc = "send"
    /\ LET ws == bc_cur
           ok == SendOk(ws, ws_closed)
           dead == IF ok THEN bc_dead ELSE Append(bc_dead, ws)
       IN /\ bc_ok' = IF ok THEN bc_ok \cup {ws} ELSE bc_ok
          /\ bc_sent' = [bc_sent EXCEPT ![ws] = @ + 1]
          /\ bc_dead' = dead
          /\ IF bc_i + 1 <= Len(active_connections)
             THEN /\ bc_i' = bc_i + 1
                  /\ bc_cur' = active_connections[bc_i + 1]
                  /\ UNCHANGED <<bl_pc, active_connections, removed>>
             ELSE /\ active_connections' = RemoveDead(active_connections, dead)
                  /\ removed' = removed \cup Range(dead)
                  /\ bl_pc' = "sleep30"
                  /\ UNCHANGED <<bc_i, bc_cur>>
    /\ UNCHANGED <<bl_saw, bl_calls, bl_err, bc_start, ws_pc, ws_closed, ws_init,
                   poolVars,
                   diagVars, httpVars, fnVars,
                   taskVars>>

\* asyncio.sleep(30) or asyncio.sleep(60) completes: the next cycle begins
\* (the previous cycle's locals are gone).
BLWake ==
    /\ bl_pc \in {"sleep30", "sleep60"}
    /\ bl_pc' = "check"
    /\ bl_saw' = FALSE
    /\ bl_calls' = 0
    /\ bl_err' = FALSE
    /\ bc_i' = 1
    /\ bc_cur' = "none"
    /\ bc_dead' = <<>>
    /\ bc_ok' = {}
    /\ bc_start' = {}
    /\ bc_sent' = [ws \in Subscribers |-> 0]
    /\ UNCHANGED <<removed, wsVars, poolVars, diagVars, httpVars, fnVars,
                   taskVars>>

\* ----------------------------------------------- action: GET /api/diagnostics
GetDiagnostics ==
    /\ diag_out.kind = "none"
    /\ diag_out' = get_diagnostics(diag_in)
    /\ UNCHANGED <<diag_in, poolVars, wsVars, loopVars, httpVars, fnVars,
                   taskVars>>

\* ---------------------------------------------------------- authentication
\* What the Authorization header of a request carries: nothing, the
\* configured key, or some other bearer token.
Tokens == {"absent", "secret", "wrong"}

\* API_KEY from the environment: unset (None or empty) or set.
ApiKeys == {"unset", "secret"}

AuthConfigs == [enable_auth : BOOLEAN, api_key : ApiKeys]

Passed == [kind |-> "pass"]

Unauthorized(detail) ==
    [kind |-> "raised", status_code |-> 401, detail |-> detail]

\* Faulty variant of verify_api_key: the token is never compared with the key.
VerifyKeyNoCompare(cfg, credentials) ==
    IF ~cfg.enable_auth
    THEN Passed
    ELSE IF credentials = "absent" \/ cfg.api_key = "unset"
         THEN Unauthorized("API key required")
         ELSE Passed

\* The dependency every /api route declares; it runs before the handler.
verify_api_key(cfg, credentials) ==
    IF ~cfg.enable_auth
    THEN Passed
    ELSE IF credentials = "absent" \/ cfg.api_key = "unset"
         THEN Unauthorized("API key required")
         ELSE IF credentials # cfg.api_key
              THEN Unauthorized("Invalid API key")
              ELSE Passed

\* ------------------------------------------------------ JSON collectors
\* Default timeout of execute_ssh_command, and the one restart passes.
DefaultTimeout == 30

RestartTimeout == 60

\* What a collector's remote script printed: a JSON document or not.
StdoutTexts == {"json", "garbage"}

\* json.loads(result['stdout'].strip())
json_loads(text) ==
    CASE text = "json" -> [kind |-> "value", value |-> "summary"]
      [] text = "45" -> [kind |-> "value", value |-> 45]
      [] OTHER -> [kind |-> "raised", error |-> "JSONDecodeError"]

\* float(result['stdout'].strip())
float(text) ==
    IF text = "45"
    THEN [kind |-> "value", value |-> 45]
    ELSE [kind |-> "raised", error |-> "ValueError"]

Returned(body) == [kind |-> "return", status_code |-> 200, body |-> body]

\* "except Exception as e: raise HTTPException(status_code=500, ...)"
InternalError(detail) ==
    [kind |-> "raised", status_code |-> 500, detail |-> detail]

\* The body shared by get_services_status, get_containers_status,
\* get_applications_status and get_security_status.  res is what
\* execute_ssh_command gave: a result, or the pool's exception, which the
\* handler's "except Exception" catches like any other.
collector_status(route, res, text) ==
    IF res.kind = "raised"
    THEN InternalError(route)
    ELSE IF res.success
         THEN IF json_loads(text).kind = "value"
              THEN Returned(json_loads(text).value)
              ELSE InternalError(route)
         ELSE InternalError(route)

get_services_status(res, text) == collector_status("services", res, text)

get_containers_status(res, text) == collector_status("containers", res, text)

get_applications_status(res, text) ==
    collector_status("applications", res, text)

get_security_status(res, text) == collector_status("security", res, text)

CollectorRoutes == {"services", "containers", "applications", "security"}

CollectorOf(route, res, text) ==
    CASE route = "services" -> get_services_status(res, text)
      [] route = "containers" -> get_containers_status(res, text)
      [] route = "applications" -> get_applications_status(res, text)
      [] route = "security" -> get_security_status(res, text)

\* A command handed to execute_ssh_command, with its timeout.
Call(prog, arg, timeout) == [prog |-> prog, arg |-> arg, timeout |-> timeout]

\* ------------------------------------------------------ action endpoints
RestartTypes == {"service", "container", "vm"}

TargetNames == {"nginx"}

RestartRequests == [type : RestartTypes, name : TargetNames]

\* The command restart_service_or_container builds, if the type has one.
RestartCommand(request) ==
    CASE request.type = "service" ->
             <<Call("sudo systemctl restart", request.name, RestartTimeout)>>
      [] request.type = "container" ->
             <<Call("docker restart", request.name, RestartTimeout)>>
      [] OTHER -> <<>>

\* Faulty variant of restart_service_or_container: a result is reported as a
\* success whatever its exit status.
RestartIgnoresExitStatus(request, res) ==
    IF RestartCommand(request) = <<>>
    THEN InternalError("Type must be 'service' or 'container'")
    ELSE IF res.kind = "raised"
         THEN InternalError(res.detail)
         ELSE Returned([success |-> TRUE])

\* restart_service_or_container once its command has run with result res.
\* Both HTTPExceptions raised inside the try block (400 for the type, 500
\* for the failed command) are caught by "except Exception" and raised
\* again with status 500.
restart_service_or_container(request, res) ==
    IF RestartCommand(request) = <<>>
    THEN InternalError("Type must be 'service' or 'container'")
    ELSE IF res.kind = "raised"
         THEN InternalError(res.detail)
         ELSE IF res.success
              THEN Returned([success |-> TRUE])
              ELSE InternalError("Failed to restart")

\* Issue ids, as the list of their parts between underscores.
IssueIds ==
    {<<"disk", "usage", "1700000000">>, <<"DISK", "full">>, <<"diskfull">>,
     <<"service", "nginx", "1700000000">>, <<"Service", "redis-server">>,
     <<"service">>, <<"disk", "service", "nginx">>,
     <<"cpu", "high", "1700000000">>}

\* str.lower() on one part.
lower(w) ==
    CASE w = "DISK" -> "disk"
      [] w = "Service" -> "service"
      [] OTHER -> w

\* "sub in w" for the parts of IssueIds.
Substring(sub, w) ==
    \/ sub = w
    \/ sub = "disk" /\ w = "diskfull"

\* "sub in issue_id.lower()": sub has no underscore, so it lies in one part.
InLower(sub, id) == \E i \in 1..Len(id) : Substring(sub, lower(id[i]))

\* Faulty variant of ServiceNameOf: the last part is taken for the name.
ServiceNameIsLastPart(id) == IF Len(id) > 1 THEN id[Len(id)] ELSE "unknown"

\* issue_id.split('_')[1] if '_' in issue_id else 'unknown'
ServiceNameOf(id) == IF Len(id) > 1 THEN id[2] ELSE "unknown"

\* The remediation resolve_issue chooses: its command and the entry it
\* appends to actions_taken when the command succeeds.
Remediation(id) ==
    IF InLower("disk", id)
    THEN <<[call |-> Call("sudo find /tmp -delete && journalctl --vacuum",
                           "", DefaultTimeout),
            action |-> <<"Cleaned temporary files and old logs", "">>]>>
    ELSE IF InLower("service", id)
         THEN <<[call |-> Call("sudo systemctl restart", ServiceNameOf(id),
                                DefaultTimeout),
                 action |-> <<"Restarted service", ServiceNameOf(id)>>]>>
         ELSE <<>>

Resolved(actions_taken) ==
    Returned([success |-> TRUE, actions_taken |-> actions_taken])

\* Faulty variant of resolve_issue: the action is listed whether or not its
\* command succeeded.
ResolveListsFailures(id, res) ==
    IF Remediation(id) = <<>>
    THEN Resolved(<<>>)
    ELSE IF res.kind = "raised"
         THEN InternalError(res.detail)
         ELSE Resolved(<<Remediation(id)[1].action>>)

\* resolve_issue once its command, if it has one, has run with result res.
resolve_issue(id, res) ==
    IF Remediation(id) = <<>>
    THEN Resolved(<<>>)
    ELSE IF res.kind = "raised"
         THEN InternalError(res.detail)
         ELSE IF res.success
              THEN Resolved(<<Remediation(id)[1].action>>)
              ELSE Resolved(<<>>)

\* ------------------------------------------------------------- GET /health
\* "timeout=5" of the probe command.
HealthTimeout == 5

\* Faulty variant of health_check: without its except clause, the pool's
\* exception reaches the client.
HealthPropagates(res) ==
    IF res.kind = "raised"
    THEN [kind |-> "raised", status_code |-> res.status_code,
          detail |-> res.detail]
    ELSE Returned([status |-> "healthy", ssh_connection |-> res.success])

\* health_check once execute_ssh_command("echo 'connected'") has given res:
\* a result, or the exception of the pool, which "except Exception" turns
\* into the unhealthy answer.
health_check(res) ==
    IF res.kind = "raised"
    THEN Returned([status |-> "unhealthy", error |-> res.detail])
    ELSE Returned([status |-> "healthy", ssh_connection |-> res.success])

\* -------------------------------------- get_system_metrics: the payload
\* Keys of the "commands" dictionary, in its order.
MetricKeys == <<"cpu", "memory", "disk", "load", "network">>

\* What a metric command printed: a number, a JSON object, or neither.
MetricTexts == {"45", "json", "garbage"}

\* What execute_ssh_command returned for one metric command.
MetricOutcomes == [success : BOOLEAN, stdout : MetricTexts]

MetricInputs == [1..NumMetricCommands -> MetricOutcomes]

\* Python values of the payload.
NoneValue == [type |-> "NoneType"]

Parsed(v) == [type |-> "parsed", value |-> v]

Zero == [type |-> "int", value |-> 0]

EmptyDict == [type |-> "dict", value |-> "{}"]

\* The parse of one successful command's output.
ParseMetric(key, text) == IF key = "cpu" THEN float(text) ELSE json_loads(text)

\* The loop body after the command: "results[key] = ..." when the command
\* succeeded (the parsed value, or None when the parse raised), nothing
\* when it did not.
StoreMetric(results, key, out) ==
    IF out.success
    THEN [k \in DOMAIN results \cup {key} |->
             IF k = key
             THEN IF ParseMetric(key, out.stdout).kind = "value"
                  THEN Parsed(ParseMetric(key, out.stdout).value)
                  ELSE NoneValue
             ELSE results[k]]
    ELSE results

\* "results" after the first n commands.
RECURSIVE MetricResults(_, _)
MetricResults(outs, n) ==
    IF n = 0
    THEN [k \in {} |-> NoneValue]
    ELSE StoreMetric(MetricResults(outs, n - 1), MetricKeys[n], outs[n])

\* dict.get(key, default)
dict_get(d, key, default) == IF key \in DOMAIN d THEN d[key] ELSE default

\* The dictionary get_system_metrics returns when no command raised.
SystemMetricsPayload(outs) ==
    LET results == MetricResults(outs, NumMetricCommands) IN
    [kind |-> "return",
     cpu_usage |-> dict_get(results, "cpu", Zero),
     memory |-> dict_get(results, "memory", EmptyDict),
     disk |-> [root |-> dict_get(results, "disk", EmptyDict)],
     load_average |-> dict_get(results, "load", EmptyDict),
     network |-> dict_get(results, "network", EmptyDict)]

\* ------------------------------------------- application health checks
\* The endpoints of the "apps" dictionary, in its order.
AppNames == <<"cbl_frontend", "cbl_backend", "cbl_mobile", "guacamole">>

\* HTTP status codes an endpoint can answer with.
StatusCodes == {199, 200, 399, 400, 503}

\* Lengths of the text of the exception a request can raise.
ErrorLengths == {20, 150}

\* What one endpoint does with the GET: it answers, or the request raises
\* (refused, timed out); the error text is kept by its length.
EndpointOutcomes ==
    [kind : {"response"}, status_code : StatusCodes, error_len : {0}]
    \cup [kind : {"raise"}, status_code : {0}, error_len : ErrorLengths]

AppInputs == [1..Len(AppNames) -> EndpointOutcomes]

\* Faulty variant of Healthy: every status below 600 counts as healthy.
HealthyBelow600(code) == 200 <= code /\ code < 600

\* "200 <= response.status_code < 400"
Healthy(code) == 200 <= code /\ code < 400

\* str(e)[:100]
Truncate(len) == IF len > 100 THEN 100 ELSE len

\* The entry the remote script of get_applications_status stores for one
\* endpoint: the body of its try, or of its except.
ScriptEntry(name, o) ==
    IF o.kind = "response"
    THEN [name |-> name, healthy |-> Healthy(o.status_code),
          status_code |-> o.status_code, measured |-> TRUE, error |-> None]
    ELSE [name |-> name, healthy |-> FALSE, status_code |-> None,
          measured |-> FALSE, error |-> o.error_len]

\* The entry get_applications_data (Workers variant) stores.
WorkerEntry(name, o) ==
    IF o.kind = "response"
    THEN [name |-> name, healthy |-> Healthy(o.status_code),
          status_code |-> o.status_code, measured |-> TRUE, error |-> None]
    ELSE [name |-> name, healthy |-> FALSE, status_code |-> None,
          measured |-> FALSE, error |-> Truncate(o.error_len)]

\* The counter "healthy" after the first n endpoints: incremented in the
\* try body only.
RECURSIVE HealthyAfter(_, _)
HealthyAfter(outs, n) ==
    IF n = 0
    THEN 0
    ELSE HealthyAfter(outs, n - 1)
         + (IF outs[n].kind = "response" /\ Healthy(outs[n].status_code)
            THEN 1 ELSE 0)

\* What the remote script of get_applications_status prints.
applications_script(outs) ==
    [kind |-> "return", by |-> "script",
     applications |-> [n \in 1..Len(AppNames) |->
                          ScriptEntry(AppNames[n], outs[n])],
     healthy_count |-> HealthyAfter(outs, Len(AppNames)),
     unhealthy_count |-> Len(AppNames) - HealthyAfter(outs, Len(AppNames))]

\* get_applications_data of the Workers variant.
get_applications_data(outs) ==
    [kind |-> "return", by |-> "worker",
     applications |-> [n \in 1..Len(AppNames) |->
                          WorkerEntry(AppNames[n], outs[n])],
     healthy_count |-> HealthyAfter(outs, Len(AppNames)),
     unhealthy_count |-> Len(AppNames) - HealthyAfter(outs, Len(AppNames))]

\* ------------------------------------------------- actions: HTTP routes
\* The record kept in "http" for one request.
Exchange(route, token, input, calls, result, text, response) ==
    [route |-> route, token |-> token, input |-> input, calls |-> calls,
     acquire_failed |-> (result.kind = "raised"), result |-> result,
     text |-> text, response |-> response]

NoExchange ==
    Exchange("none", "absent", "none", <<>>, NoResult, "none", NoResult)

\* verify_api_key raised: FastAPI answers without entering the handler.
Denied(route, token, input, a) ==
    /\ http' = Exchange(route, token, input, <<>>, NoResult, "none", a)
    /\ UNCHANGED poolVars

\* What a handler's command does remotely: it exits with 0, exits with
\* another status, or raises.
RouteOutcomes ==
    {ex \in ExecOutcomes : ex.code \in {0, 1} /\ ex.error \in {"none", "timeout"}}

\* What the handler of a route answers once its command gave res.
HandlerResponse(route, input, res, text) ==
    CASE route \in CollectorRoutes -> CollectorOf(route, res, text)
      [] route = "restart" -> restart_service_or_container(input, res)
      [] route = "resolve" -> resolve_issue(input, res)
      [] route = "health" -> health_check(res)

\* One execute_ssh_command call made by a handler, and what the handler
\* answers from its result.
OneCall(route, token, input, call, text) ==
    \E connectOk \in ConnectChoices(pool, in_use, alive, max_connections),
       ex \in RouteOutcomes :
        LET r == execute_ssh_command(pool, in_use, alive, max_connections,
                                     connectOk, ex) IN
        /\ MetricsEffect(r)
        /\ http' = Exchange(route, token, input, <<call>>, r.result, text,
                            HandlerResponse(route, input, r.result, text))

\* GET /api/services, /api/containers, /api/applications, /api/security
CollectorRoute(route) ==
    /\ \E token \in Tokens :
           LET a == verify_api_key(auth_cfg, token) IN
           IF a.kind = "raised"
           THEN Denied(route, token, "none", a)
           ELSE \E text \in StdoutTexts :
                    OneCall(route, token, "none",
                            Call(route, "", DefaultTimeout), text)
    /\ UNCHANGED <<auth_cfg, wsVars, loopVars, diagVars, fnVars,
                   taskVars>>

\* GET /api/system
SystemRoute ==
    /\ \E token \in Tokens :
           LET a == verify_api_key(auth_cfg, token) IN
           IF a.kind = "raised"
           THEN Denied("system", token, "none", a)
           ELSE \E m \in get_system_metrics(pool, in_use, alive,
                                            max_connections) :
                    /\ MetricsEffect(m)
                    /\ http' = Exchange(
                           "system", token, "none",
                           [i \in 1..m.calls |->
                               Call("metrics", "", DefaultTimeout)],
                           IF m.raised THEN PoolError("connect_failure")
                           ELSE NoResult,
                           "none",
                           IF m.raised THEN InternalError("system")
                           ELSE Returned("metrics"))
    /\ UNCHANGED <<auth_cfg, wsVars, loopVars, diagVars, fnVars,
                   taskVars>>

\* POST /api/actions/restart
RestartRoute ==
    /\ \E token \in Tokens, request \in RestartRequests :
           LET a == verify_api_key(auth_cfg, token) IN
           IF a.kind = "raised"
           THEN Denied("restart", token, request, a)
           ELSE IF RestartCommand(request) = <<>>
                THEN /\ http' = Exchange(
                            "restart", token, request, <<>>, NoResult, "none",
                            HandlerResponse("restart", request, NoResult,
                                            "none"))
                     /\ UNCHANGED poolVars
                ELSE OneCall("restart", token, request,
                             RestartCommand(request)[1], "none")
    /\ UNCHANGED <<auth_cfg, wsVars, loopVars, diagVars, fnVars,
                   taskVars>>

\* POST /api/actions/resolve
ResolveRoute ==
    /\ \E token \in Tokens, id \in IssueIds :
           LET a == verify_api_key(auth_cfg, token) IN
           IF a.kind = "raised"
           THEN Denied("resolve", token, id, a)
           ELSE IF Remediation(id) = <<>>
                THEN /\ http' = Exchange("resolve", token, id, <<>>, NoResult,
                                         "none",
                                         HandlerResponse("resolve", id,
                                                         NoResult, "none"))
                     /\ UNCHANGED poolVars
                ELSE OneCall("resolve", token, id, Remediation(id)[1].call,
                             "none")
    /\ UNCHANGED <<auth_cfg, wsVars, loopVars, diagVars, fnVars,
                   taskVars>>

\* GET /health: no credential is asked for, whatever the request carries.
HealthRoute ==
    /\ \E token \in Tokens :
           OneCall("health", token, "none",
                   Call("echo 'connected'", "", HealthTimeout), "none")
    /\ UNCHANGED <<auth_cfg, wsVars, loopVars, diagVars, fnVars,
                   taskVars>>

\* POST /api/actions/resolve with the id of an issue that get_diagnostics
\* reported.
ResolveDiagnosed ==
    /\ diag_out.kind = "ok"
    /\ \E token \in Tokens, i \in 1..Len(diag_out.issues) :
           LET id == IssueIdText(diag_out.issues[i].id)
               a == verify_api_key(auth_cfg, token) IN
           IF a.kind = "raised"
           THEN Denied("resolve", token, id, a)
           ELSE IF Remediation(id) = <<>>
                THEN /\ http' = Exchange("resolve", token, id, <<>>, NoResult,
                                         "none",
                                         HandlerResponse("resolve", id,
                                                         NoResult, "none"))
                     /\ UNCHANGED poolVars
                ELSE OneCall("resolve", token, id, Remediation(id)[1].call,
                             "none")
    /\ UNCHANGED <<auth_cfg, wsVars, loopVars, diagVars, fnVars,
                   taskVars>>

\* -------------------------------------------- actions: pure functions
\* get_system_metrics builds its payload from the five command results.
BuildMetrics ==
    /\ metrics_out.kind = "none"
    /\ metrics_out' = SystemMetricsPayload(metrics_in)
    /\ UNCHANGED <<metrics_in, apps_in, apps_out, poolVars, wsVars, loopVars,
                   diagVars, httpVars,
                   taskVars>>

\* The remote script of get_applications_status checks the endpoints.
RunApplicationsScript ==
    /\ apps_out.kind = "none"
    /\ apps_out' = applications_script(apps_in)
    /\ UNCHANGED <<metrics_in, metrics_out, apps_in, poolVars, wsVars,
                   loopVars, diagVars, httpVars,
                   taskVars>>

\* The Workers variant checks the endpoints.
GetApplicationsData ==
    /\ apps_out.kind = "none"
    /\ apps_out' = get_applications_data(apps_in)
    /\ UNCHANGED <<metrics_in, metrics_out, apps_in, poolVars, wsVars,
                   loopVars, diagVars, httpVars,
                   taskVars>>

\* ------------------------------------------------ the event loop's thread
\* Handlers of GET /health requests: each makes one execute_ssh_command call.
Requests == {"r1", "r2"}

\* A /ws handler in "await asyncio.sleep(30)": its wake-up involves no
\* remote call.
Timers == {"t1"}

Tasks == Requests \cup Timers

\* Whether get_connection reaches a paramiko call (a probe or a connect)
\* before it returns or raises.
CallsRemote(p, iu, maxc) ==
    \/ \E i \in 1..Len(p) : Available(p[i], iu)
    \/ PoolNotFull(p, maxc)

\* Faulty variant of ThreadFree: the remote calls are awaited, so the loop
\* resumes other tasks while one is inside them.
ThreadYielded(running) == TRUE

\* Whether the event loop can resume a task: its one thread is not inside
\* a call of another task.  paramiko's exec_command, connect and read are
\* plain blocking calls, made without await, inside the coroutine.
ThreadFree(running) == running = "none"

\* A request arrives, or a timer expires: the task becomes ready.
Arrive(u) ==
    /\ task_pc[u] = "idle"
    /\ task_pc' = [task_pc EXCEPT ![u] = "ready"]
    /\ UNCHANGED <<loop_running, loop_client, poolVars, wsVars, loopVars,
                   diagVars, httpVars, fnVars>>

\* The event loop resumes a ready task, which runs up to its first call on
\* the remote host (or to its end, when it makes none).
Dispatch(u) ==
    /\ ThreadFree(loop_running)
    /\ task_pc[u] = "ready"
    /\ IF u \in Requests /\ CallsRemote(pool, in_use, max_connections)
       THEN /\ task_pc' = [task_pc EXCEPT ![u] = "acquire"]
            /\ loop_running' = u
       ELSE /\ task_pc' = [task_pc EXCEPT ![u] = "idle"]
            /\ UNCHANGED loop_running
    /\ UNCHANGED <<loop_client, poolVars, wsVars, loopVars, diagVars, httpVars,
                   fnVars>>

\* The remote host answers the probes and the connect of get_connection (or
\* they time out): the call returns a channel or raises.
AcquireReturns(u) ==
    /\ loop_running = u
    /\ task_pc[u] = "acquire"
    /\ \E connectOk \in ConnectChoices(pool, in_use, alive, max_connections) :
           LET g == get_connection(pool, in_use, alive, max_connections,
                                   connectOk) IN
           /\ pool' = g.pool
           /\ in_use' = g.in_use
           /\ alive' = g.alive
           /\ IF g.outcome = "ok"
              THEN /\ task_pc' = [task_pc EXCEPT ![u] = "exec"]
                   /\ loop_client' = g.client
                   /\ UNCHANGED loop_running
              ELSE /\ task_pc' = [task_pc EXCEPT ![u] = "idle"]
                   /\ loop_running' = "none"
                   /\ UNCHANGED loop_client
    /\ UNCHANGED <<max_connections, held, last, wsVars, loopVars, diagVars,
                   httpVars, fnVars>>

\* The command's output and exit status arrive (or the call times out or
\* raises); the finally clause releases the channel and the handler ends.
ExecReturns(u) ==
    /\ loop_running = u
    /\ task_pc[u] = "exec"
    /\ \E ex \in ExecOutcomes :
           /\ in_use' = FinallyRelease(in_use, loop_client, ex)
           /\ alive' = AliveAfter(alive, loop_client, ex)
    /\ task_pc' = [task_pc EXCEPT ![u] = "idle"]
    /\ loop_running' = "none"
    /\ loop_client' = NoChannel
    /\ UNCHANGED <<max_connections, pool, held, last, wsVars, loopVars,
                   diagVars, httpVars, fnVars>>

\* ------------------------------------------------------ specifications
InitPoolVars ==
    /\ max_connections \in 1..MaxConnBound
    /\ pool = <<>>
    /\ in_use = {}
    /\ alive = {}
    /\ held = [w \in Callers |-> {}]
    /\ last = NoOp

InitServerVars ==
    /\ active_connections = <<>>
    /\ ws_pc = [ws \in Subscribers |-> "new"]
    /\ ws_init = [ws \in Subscribers |-> "none"]
    /\ ws_closed = {}
    /\ bl_pc = "check"
    /\ bl_saw = FALSE
    /\ bl_calls = 0
    /\ bl_err = FALSE
    /\ bc_i = 1
    /\ bc_cur = "none"
    /\ bc_dead = <<>>
    /\ bc_ok = {}
    /\ bc_start = {}
    /\ bc_sent = [ws \in Subscribers |-> 0]
    /\ removed = {}

InitDiagVars ==
    /\ diag_in = [kind |-> "none"]
    /\ diag_out = [kind |-> "none"]

InitHttpVars ==
    /\ auth_cfg = [enable_auth |-> FALSE, api_key |-> "unset"]
    /\ http = NoExchange

InitTaskVars ==
    /\ loop_running = "none"
    /\ loop_client = NoChannel
    /\ task_pc = [u \in Tasks |-> "idle"]

InitFnVars ==
    /\ metrics_in = <<>>
    /\ metrics_out = [kind |-> "none"]
    /\ apps_in = <<>>
    /\ apps_out = [kind |-> "none"]

Init ==
    /\ InitPoolVars
    /\ InitServerVars
    /\ InitDiagVars
    /\ InitHttpVars
    /\ InitFnVars
    /\ InitTaskVars

\* The pool used directly by concurrent callers, and through the runner.
NextPool ==
    \/ \E w \in Callers : GetConnection(w)
    \/ \E w \in Callers : ReleaseHeld(w)
    \/ ReleaseIdle
    \/ Execute
    \/ KillChannel

SpecPool == Init /\ [][NextPool]_vars

\* The running server: /ws handlers, the broadcast loop, the remote side.
NextServer ==
    \/ \E ws \in Subscribers : WSAccept(ws)
    \/ \E ws \in Subscribers : WSInitSend(ws)
    \/ \E ws \in Subscribers : WSWake(ws)
    \/ \E ws \in Subscribers : WSPingSend(ws)
    \/ \E ws \in Subscribers : WSSnapSend(ws)
    \/ \E ws \in Subscribers : ClientClose(ws)
    \/ BLCheck
    \/ BLSend
    \/ BLWake
    \/ KillChannel

SpecServer == Init /\ [][NextServer]_vars

\* get_diagnostics applied to every combination of collector readings.
InitDiag ==
    /\ InitPoolVars
    /\ InitServerVars
    /\ diag_in \in DiagInputs
    /\ diag_out = [kind |-> "none"]
    /\ InitHttpVars
    /\ InitFnVars
    /\ InitTaskVars

NextDiag == GetDiagnostics

SpecDiag == InitDiag /\ [][NextDiag]_vars

\* The HTTP routes of the running server: every handler acquires and releases
\* its channel within one step, so no channel is checked out between requests.
InitRoutes ==
    /\ InitPoolVars
    /\ max_connections = MaxConnBound
    /\ InitServerVars
    /\ InitDiagVars
    /\ auth_cfg \in AuthConfigs
    /\ http = NoExchange
    /\ InitFnVars
    /\ InitTaskVars

NextRoutes ==
    \/ \E route \in CollectorRoutes : CollectorRoute(route)
    \/ SystemRoute
    \/ RestartRoute
    \/ ResolveRoute
    \/ HealthRoute
    \/ KillChannel

SpecRoutes == InitRoutes /\ [][NextRoutes]_vars

\* Diagnostics followed by resolve requests for the issues it reported.
InitTriage ==
    /\ InitPoolVars
    /\ max_connections = MaxConnBound
    /\ InitServerVars
    /\ diag_in \in TriageInputs
    /\ diag_out = [kind |-> "none"]
    /\ InitHttpVars
    /\ InitFnVars
    /\ InitTaskVars

NextTriage ==
    \/ GetDiagnostics
    \/ ResolveDiagnosed
    \/ KillChannel

SpecTriage == InitTriage /\ [][NextTriage]_vars


\* ================================================================ claims
\* ------------------------------------------------------------------- C1
\* C1: in every reachable pool state the number of checked-out channels is
\* at most the number of pooled channels, which is at most max_connections.
C1_PoolBounds ==
    /\ Cardinality(in_use) <= Len(pool)
    /\ Len(pool) <= max_connections

\* A full pool, every channel checked out, reached by a get_connection that
\* evicted a dead channel and opened a new one.
C1_Witness ==
    /\ last.op = "get"
    /\ last.evicted # {}
    /\ Len(pool) = max_connections
    /\ Cardinality(in_use) = Len(pool)

\* ------------------------------------------------------------------- C2
\* C2: no channel is checked out to two callers at once: the channels two
\* callers hold are disjoint, and a channel get_connection returns was not
\* checked out when it was called.
C2_NeverDoubleCheckedOut ==
    /\ \A w1, w2 \in Callers : w1 # w2 => held[w1] \cap held[w2] = {}
    /\ (last.op = "get" /\ last.outcome = "ok") => last.added = {last.client}

\* Both callers hold a channel, the latest one a reused pooled channel.
C2_Witness ==
    /\ \A w \in Callers : held[w] # {}
    /\ last.op = "get"
    /\ last.outcome = "ok"
    /\ last.opened = 0

\* ------------------------------------------------------------------- C3
WellFormedResult(r) ==
    /\ DOMAIN r = {"kind", "stdout", "stderr", "exit_status", "success"}
    /\ r.kind = "result"
    /\ r.exit_status \in Int
    /\ r.success \in BOOLEAN

\* C3 as stated: execute_ssh_command returns a well-formed CommandResult for
\* every outcome, a failed acquisition giving exit_status -1 and success
\* false, and never lets an exception reach its caller.
C3_AlwaysReturnsResult ==
    last.op = "execute" =>
        /\ WellFormedResult(last.result)
        /\ last.outcome # "ok" =>
               (last.result.exit_status = -1 /\ ~last.result.success)

\* C3 as amended: execute_ssh_command returns a well-formed CommandResult
\* whenever get_connection returned a channel, an execution error giving
\* exit_status -1, success false and stderr the error text; when
\* get_connection fails (pool exhausted, connect failure) no result is
\* returned and its HTTPException 503 reaches the caller.
C3_ResultOnceAcquired ==
    last.op = "execute" =>
        IF last.outcome = "ok"
        THEN /\ WellFormedResult(last.result)
             /\ last.result.stderr \in ExecErrors =>
                    (last.result.exit_status = -1 /\ ~last.result.success)
        ELSE /\ last.result.kind = "raised"
             /\ last.result.status_code = 503
             /\ last.client = NoChannel

\* execute_ssh_command called while every channel of a full pool is held.
C3_Witness ==
    /\ last.op = "execute"
    /\ last.outcome = "exhausted"
    /\ last.result.kind = "raised"

\* ------------------------------------------------------------------- C4
\* C4: a channel acquired by execute_ssh_command is released before the call
\* ends, whatever the command did: the call leaves the checked-out set as it
\* found it and its channel available, so every checked-out channel is one a
\* direct caller of the pool still holds.
C4_ExecuteReleases ==
    /\ last.op = "execute" =>
           /\ last.added = {}
           /\ last.dropped = {}
           /\ last.client \notin in_use
    /\ in_use = UNION {held[w] : w \in Callers}

\* The command raised on an acquired channel, which is pooled and available.
C4_Witness ==
    /\ last.op = "execute"
    /\ last.outcome = "ok"
    /\ last.result.stderr \in ExecErrors
    /\ last.client \in Range(pool) \ in_use

\* ------------------------------------------------------------------- C5
\* C5: get_connection on an empty pool (max_connections >= 1) never reports
\* exhaustion and attempts exactly one connection, and a channel it returns
\* is then the pool's only channel, checked out; get_connection on a full
\* pool whose channels are all checked out raises 503 "SSH connection pool
\* exhausted", opens nothing and leaves pool and checked-out set unchanged.
C5_FirstAndOverflow ==
    /\ (last.op = "get" /\ last.preLen = 0) =>
           /\ last.outcome # "exhausted"
           /\ last.opened = 1
           /\ last.outcome = "ok" =>
                  /\ pool = <<last.client>>
                  /\ in_use = {last.client}
                  /\ last.client \in held[last.who]
    /\ (last.op = "get" /\ last.preLen = max_connections
                        /\ last.preBusy = max_connections) =>
           /\ last.outcome = "exhausted"
           /\ last.result = [kind |-> "raised", status_code |-> 503,
                             detail |-> "SSH connection pool exhausted"]
           /\ last.opened = 0
           /\ last.poolSame
           /\ last.added = {}
           /\ last.dropped = {}
           /\ last.evicted = {}

\* A further get_connection with max_connections channels checked out.
C5_Witness ==
    /\ last.op = "get"
    /\ last.outcome = "exhausted"
    /\ last.preBusy = max_connections
    /\ Cardinality(in_use) = max_connections

\* ------------------------------------------------------------------- C6
\* C6: release_connection on a channel that is unknown or already available
\* changes neither the pool nor the checked-out set; on a checked-out
\* channel it only takes that channel out of the checked-out set, and the
\* channel stays pooled.
C6_ReleaseFrame ==
    last.op = "release" =>
        /\ last.poolSame
        /\ last.added = {}
        /\ IF last.outcome = "held"
           THEN /\ last.dropped = {last.client}
                /\ last.client \in Range(pool) \ in_use
           ELSE last.dropped = {}

\* An unknown channel is released while another channel is checked out.
C6_Witness ==
    /\ last.op = "release"
    /\ last.outcome = "unknown"
    /\ in_use # {}

\* ------------------------------------------------------------------- C7
\* C7: every CommandResult execute_ssh_command returns has success true
\* exactly when exit_status is 0, and the result for an execution error has
\* exit_status -1 and success false.
C7_SuccessIffZero ==
    (last.op = "execute" /\ last.result.kind = "result") =>
        /\ last.result.success <=> (last.result.exit_status = 0)
        /\ last.result.stderr \in ExecErrors =>
               (last.result.exit_status = -1 /\ last.result.success = FALSE)

\* The degraded result of a command that timed out.
C7_Witness ==
    /\ last.op = "execute"
    /\ last.result.kind = "result"
    /\ last.result.stderr = "timeout"
    /\ last.result.exit_status = -1

\* ------------------------------------------------------------------- C8
Penalty(cond, weight) == IF cond THEN weight ELSE 0

\* The score the specification states for readings in.
ExpectedScore(in) ==
    LET raw == 100 - Penalty(in.cpu_usage > 80, 15)
                   - Penalty(in.memory_percent > 90, 25)
                   - Penalty(in.disk_percent > 85, 20)
                   - 15 * Cardinality(in.inactive)
                   - 10 * in.stopped
    IN IF raw < 0 THEN 0 ELSE raw

\* C8: the health_score get_diagnostics returns is
\* max(0, 100 - 15[cpu>80] - 25[memory>90] - 20[disk>85]
\*        - 15 * inactive services - 10 * stopped containers),
\* always within 0..100; CPU 85 alone gives 85, and CPU, memory and disk at 95
\* with three inactive services give 0.
C8_HealthScore ==
    diag_out.kind = "ok" =>
        /\ diag_out.health_score = ExpectedScore(diag_in)
        /\ diag_out.health_score \in 0..100
        /\ (/\ diag_in.cpu_usage = 85 /\ diag_in.memory_percent = 50
            /\ diag_in.disk_percent = 50 /\ diag_in.inactive = {}
            /\ diag_in.stopped = 0) => diag_out.health_score = 85
        /\ (/\ diag_in.cpu_usage = 95 /\ diag_in.memory_percent = 95
            /\ diag_in.disk_percent = 95 /\ Cardinality(diag_in.inactive) = 3)
               => diag_out.health_score = 0

\* The floor case: every threshold crossed and three services inactive.
C8_Witness ==
    /\ diag_out.kind = "ok"
    /\ diag_in.cpu_usage = 95
    /\ diag_in.memory_percent = 95
    /\ diag_in.disk_percent = 95
    /\ Cardinality(diag_in.inactive) = 3
    /\ diag_in.stopped = 0
    /\ diag_out.health_score = 0

\* ------------------------------------------------------------------- C9
\* C9: a cycle of broadcast_system_updates that finds the registry empty
\* makes no execute_ssh_command call and goes straight to its 30 s sleep.
C9_NoCommandsWhenEmpty ==
    (bl_pc # "check" /\ ~bl_saw) => (bl_calls = 0 /\ bl_pc = "sleep30")

\* An idle cycle after the only subscribers were pruned by a broadcast.
C9_Witness ==
    /\ bl_pc = "sleep30"
    /\ ~bl_saw
    /\ removed # {}
    /\ active_connections = <<>>

\* ------------------------------------------------------------------ C10
\* C10: when a broadcast ends, every socket whose send failed is out of the
\* registry and every socket whose send succeeded is still in it; a socket a
\* broadcast removed is never in the registry again, so no later broadcast
\* sends to it.
C10_DeadRemovedLiveKept ==
    /\ (bl_pc = "sleep30" /\ bl_saw) =>
           /\ \A ws \in Range(bc_dead) : ws \notin Range(active_connections)
           /\ \A ws \in bc_ok : ws \in Range(active_connections)
    /\ removed \cap Range(active_connections) = {}
    /\ bl_pc = "send" =>
           /\ active_connections[bc_i] \notin removed
           /\ (bc_ok \cup Range(bc_dead)) \cap removed = {}

\* A broadcast that failed for one socket and delivered to another.
C10_Witness ==
    /\ bl_pc = "sleep30"
    /\ bc_dead # <<>>
    /\ bc_ok # {}

\* get_system_metrics' payload for every combination of command results.
InitMetrics ==
    /\ InitPoolVars
    /\ InitServerVars
    /\ InitDiagVars
    /\ InitHttpVars
    /\ metrics_in \in MetricInputs
    /\ metrics_out = [kind |-> "none"]
    /\ apps_in = <<>>
    /\ apps_out = [kind |-> "none"]
    /\ InitTaskVars

NextMetrics == BuildMetrics

SpecMetrics == InitMetrics /\ [][NextMetrics]_vars

\* The application health check for every combination of endpoint answers.
InitApps ==
    /\ InitPoolVars
    /\ InitServerVars
    /\ InitDiagVars
    /\ InitHttpVars
    /\ metrics_in = <<>>
    /\ metrics_out = [kind |-> "none"]
    /\ apps_in \in AppInputs
    /\ apps_out = [kind |-> "none"]
    /\ InitTaskVars

NextApps ==
    \/ RunApplicationsScript
    \/ GetApplicationsData

SpecApps == InitApps /\ [][NextApps]_vars

\* The event loop's thread shared by request handlers and timers.
NextLoop ==
    \/ \E u \in Tasks : Arrive(u)
    \/ \E u \in Tasks : Dispatch(u)
    \/ \E u \in Requests : AcquireReturns(u)
    \/ \E u \in Requests : ExecReturns(u)
    \/ KillChannel

SpecLoop == Init /\ [][NextLoop]_vars

\* C11: when the command of a JSON collector (services, containers,
\* applications, security) gives a result with success = false, or its
\* output does not parse, the collector returns a summary (of defaults) and
\* the request does not fail.
C11_DefaultSummaryOnFailure ==
    (/\ http.route \in CollectorRoutes
     /\ http.result.kind = "result"
     /\ (~http.result.success \/ json_loads(http.text).kind = "raised"))
    => http.response.kind = "return"

\* The payload field built from the command at position n.
MetricField(out, n) ==
    CASE n = 1 -> out.cpu_usage
      [] n = 2 -> out.memory
      [] n = 3 -> out.disk.root
      [] n = 4 -> out.load_average
      [] n = 5 -> out.network

MetricDefault(n) == IF n = 1 THEN Zero ELSE EmptyDict

ParseFails(n) ==
    /\ metrics_in[n].success
    /\ ParseMetric(MetricKeys[n], metrics_in[n].stdout).kind = "raised"

\* C12: in get_system_metrics, every field whose own command's output
\* fails to parse takes its default (0 for cpu_usage, {} for the others),
\* and every other field is what its own command gave.
C12_FieldDefaultsOnParseFailure ==
    metrics_out.kind = "return" =>
        \A n \in 1..NumMetricCommands :
            ParseFails(n) => MetricField(metrics_out, n) = MetricDefault(n)

\* C13: when acquiring a channel fails (pool exhausted or connect failure)
\* while a collector route such as GET /api/system is served, the caller
\* receives a service-unavailable (503) response.
C13_AcquireFailureIs503 ==
    (http.route \in CollectorRoutes \cup {"system"} /\ http.acquire_failed)
    => (http.response.kind = "raised" /\ http.response.status_code = 503)

\* A resolve request that passed authentication.
ResolveServed == http.route = "resolve" /\ http.response.status_code # 401

CleanupCall ==
    Call("sudo find /tmp -delete && journalctl --vacuum", "", DefaultTimeout)

\* The commands the claim expects for an issue id, and the entries of
\* actions_taken when they succeed.
ExpectedCalls(id) ==
    IF InLower("disk", id)
    THEN <<CleanupCall>>
    ELSE IF InLower("service", id)
         THEN <<Call("sudo systemctl restart", ServiceNameOf(id),
                     DefaultTimeout)>>
         ELSE <<>>

ExpectedActions(id) ==
    IF InLower("disk", id)
    THEN <<<<"Cleaned temporary files and old logs", "">>>>
    ELSE IF InLower("service", id)
         THEN <<<<"Restarted service", ServiceNameOf(id)>>>>
         ELSE <<>>

ResolveReportsSuccess ==
    /\ http.response.kind = "return"
    /\ http.response.body.success
    /\ http.response.body.actions_taken =
           IF http.result.kind = "result" /\ http.result.success
           THEN ExpectedActions(http.input)
           ELSE <<>>

\* C14 as stated: Resolve always reports success, with actions_taken
\* listing exactly the remediation commands that succeeded ("disk" runs the
\* cleanup, otherwise "service" restarts the service named in the id,
\* otherwise nothing runs).
C14_AlwaysReportsSuccess ==
    ResolveServed =>
        /\ http.calls = ExpectedCalls(http.input)
        /\ ResolveReportsSuccess

\* C14 amended: Resolve chooses its command as stated and reports success
\* with exactly the succeeded remediations unless acquiring the channel for
\* that command failed; then the request fails with status 500.
C14_SuccessUnlessAcquireFails ==
    ResolveServed =>
        /\ http.calls = ExpectedCalls(http.input)
        /\ IF http.acquire_failed
           THEN /\ http.response.kind = "raised"
                /\ http.response.status_code = 500
           ELSE ResolveReportsSuccess

\* A service issue whose restart succeeded and is listed.
C14_Witness ==
    /\ ResolveServed
    /\ http.input = <<"service", "nginx", "1700000000">>
    /\ http.result.kind = "result"
    /\ http.result.success
    /\ http.response.body.actions_taken = <<<<"Restarted service", "nginx">>>>

\* A restart request for a service or a container that passed
\* authentication.
RestartServed ==
    /\ http.route = "restart"
    /\ http.response.status_code # 401
    /\ http.input.type \in {"service", "container"}

\* C15: Restart(type, name) hands exactly one command to the command
\* runner, "sudo systemctl restart <name>" for a service and
\* "docker restart <name>" for a container, with a 60 s timeout; it reports
\* success exactly when that command's exit status is 0 and failure
\* otherwise, and runs nothing further (no rollback).
C15_RestartOneCommand ==
    RestartServed =>
        /\ http.calls =
               <<[prog |-> IF http.input.type = "service"
                           THEN "sudo systemctl restart"
                           ELSE "docker restart",
                  arg |-> http.input.name,
                  timeout |-> 60]>>
        /\ (http.response.kind = "return" /\ http.response.body.success)
               <=> (http.result.kind = "result" /\ http.result.exit_status = 0)
        /\ http.response.kind \in {"return", "raised"}
        /\ http.response.kind = "raised" => http.response.status_code = 500

\* A container restart whose command exited with a non-zero status.
C15_Witness ==
    /\ RestartServed
    /\ http.input.type = "container"
    /\ http.result.kind = "result"
    /\ http.result.exit_status = 1
    /\ http.response.kind = "raised"

\* What the claim expects of the entry of an endpoint that answered o.
ExpectedEntry(e, o) ==
    IF o.kind = "response"
    THEN /\ e.healthy <=> (o.status_code >= 200 /\ o.status_code <= 399)
         /\ e.status_code = o.status_code
         /\ e.error = None
    ELSE /\ ~e.healthy
         /\ e.status_code = None
         /\ e.error # None
         /\ e.error > 0

\* C16: the application health check judges every endpoint on its own
\* answer: a status in 200..399 is healthy, any other status is unhealthy
\* with that status_code and error = None, a raised request is unhealthy
\* with status_code = None and an error text; healthy_count counts the
\* healthy entries and healthy_count + unhealthy_count is the number of
\* endpoints.
C16_EndpointsJudgedIndependently ==
    apps_out.kind = "return" =>
        /\ \A n \in 1..4 :
               ExpectedEntry(apps_out.applications[n], apps_in[n])
        /\ apps_out.healthy_count =
               Cardinality({n \in 1..4 : apps_out.applications[n].healthy})
        /\ apps_out.healthy_count + apps_out.unhealthy_count = 4

\* One endpoint answered 503, another raised, a third is healthy.
C16_Witness ==
    /\ apps_out.kind = "return"
    /\ apps_in[1] = [kind |-> "response", status_code |-> 503, error_len |-> 0]
    /\ apps_in[2].kind = "raise"
    /\ apps_out.applications[1].status_code = 503
    /\ ~apps_out.applications[1].healthy
    /\ apps_out.applications[2].status_code = None
    /\ apps_out.applications[3].healthy
    /\ apps_out.healthy_count = 1

IdleAndLive(i) == pool[i] \notin in_use /\ pool[i] \in alive

\* C18: get_connection probes the available channels in pool order and
\* returns the first whose probe succeeds; it tries a new connection only
\* if no available channel would pass the probe.  With an available dead
\* channel followed by an available live one, the live one is returned and
\* no connection is opened.
C18_ReusesLivePooledChannel ==
    last.op = "get" =>
        /\ (last.opened = 1 \/ last.outcome = "connect_failure")
           => ~\E i \in 1..Len(pool) : IdleAndLive(i)
        /\ (last.outcome = "ok" /\ last.opened = 0)
           => \A i \in 1..Len(pool) :
                  pool[i] = last.client
                  => ~\E j \in 1..(i - 1) : IdleAndLive(j)

\* C19: a channel whose probe fails during get_connection is closed and
\* removed from the pool and the failure is not reported (the call goes on
\* to another channel or a new connection); only channels that are not
\* checked out are probed, so no checked-out channel is evicted or closed
\* by it, and every checked-out channel stays in the pool.
C19_EvictsOnlyIdleChannels ==
    /\ in_use \subseteq Range(pool)
    /\ last.op \in {"get", "execute"} =>
           /\ last.evicted \cap Range(pool) = {}
           /\ last.evicted \cap alive = {}
           /\ last.evicted \cap in_use = {}
           /\ last.dropped = {}
           /\ last.evicted # {} =>
                  \/ last.outcome = "ok" /\ last.client # NoChannel
                  \/ /\ last.outcome = "connect_failure"
                     /\ last.result.detail = "Cannot connect to remote server"

\* A dead idle channel was evicted while a dead checked-out one stayed.
C19_Witness ==
    /\ last.op = "get"
    /\ last.evicted # {}
    /\ \E c \in in_use : c \notin alive /\ c # last.client

\* C20: when opening a new connection fails, get_connection fails with
\* ConnectFailure (503 with the cause), and the failed channel is neither
\* added to the pool nor checked out: the pool holds what it held before
\* less the channels the same call evicted, and in_use is unchanged.
C20_ConnectFailureLeavesPool ==
    (last.op = "get" /\ last.outcome = "connect_failure") =>
        /\ last.result.kind = "raised"
        /\ last.result.status_code = 503
        /\ last.result.detail = "Cannot connect to remote server"
        /\ last.client = NoChannel
        /\ last.added = {}
        /\ last.dropped = {}
        /\ Len(pool) = last.preLen - Cardinality(last.evicted)
        /\ last.evicted = {} => last.poolSame
        /\ in_use \subseteq Range(pool)

\* A connect failure while another caller holds a channel.
C20_Witness ==
    /\ last.op = "get"
    /\ last.outcome = "connect_failure"
    /\ in_use # {}
    /\ Len(pool) = last.preLen

\* ------------------------------------------------------------------ C21
\* The number of entries of "issues" with this category, severity and flag.
IssuesWith(category, severity, auto) ==
    Cardinality({i \in 1..Len(diag_out.issues) :
                    /\ diag_out.issues[i].category = category
                    /\ diag_out.issues[i].severity = severity
                    /\ diag_out.issues[i].can_auto_resolve = auto})

\* C21: get_diagnostics emits exactly one Issue per triggered condition
\* (CPU > 80: warning; memory > 90: critical; disk > 85: warning,
\* auto-resolvable; each inactive monitored service: critical,
\* auto-resolvable; each stopped container), so every decrement of the
\* score comes with an Issue and no Issue comes without its condition.
C21_OneIssuePerCondition ==
    diag_out.kind = "ok" =>
        /\ IssuesWith("system", "warning", FALSE)
              = Penalty(diag_in.cpu_usage > 80, 1)
        /\ IssuesWith("system", "critical", FALSE)
              = Penalty(diag_in.memory_percent > 90, 1)
        /\ IssuesWith("system", "warning", TRUE)
              = Penalty(diag_in.disk_percent > 85, 1)
        /\ IssuesWith("service", "critical", TRUE)
              = Cardinality(diag_in.inactive)
        /\ \A s \in diag_in.inactive :
               \E i \in 1..Len(diag_out.issues) :
                   /\ diag_out.issues[i].category = "service"
                   /\ diag_out.issues[i].id[2] = s
        /\ Len(diag_out.issues)
              = Penalty(diag_in.cpu_usage > 80, 1)
                + Penalty(diag_in.memory_percent > 90, 1)
                + Penalty(diag_in.disk_percent > 85, 1)
                + Cardinality(diag_in.inactive)
                + diag_in.stopped

\* ------------------------------------------------------------------ C22
\* C22: when the /ws handler of a subscriber stops because a ping or a
\* snapshot could not be delivered, the subscriber is no longer in
\* active_connections, so the broadcast loop neither counts it nor sends
\* to it.
C22_FailedSubscriberUnregistered ==
    \A ws \in Subscribers :
        ws_pc[ws] = "send_failed" => ws \notin Range(active_connections)

\* ------------------------------------------------------------------ C23
\* C23 as stated: a subscriber accepted on /ws is registered and sent an
\* immediate snapshot before its cycles of ping and snapshot begin, and the
\* handler only stops when the connection has ended.
C23_ImmediateSnapshotThenCycles ==
    \A ws \in Subscribers :
        /\ (ws_pc[ws] = "sleep" /\ ws_init[ws] # "none")
           => ws_init[ws] \in {"sent", "failed"}
        /\ ws_pc[ws] \in {"init_send", "sleep", "ping_send", "snap_send"}
           => ws \in Range(active_connections) \cup removed
        /\ ws_pc[ws] \in {"done", "send_failed"} => ws \in ws_closed

\* What one step may do to the handler of ws.
HandlerStep(ws) ==
    /\ (ws_pc[ws] = "new" /\ ws_pc'[ws] # "new")
       => /\ ws_pc'[ws] \in {"refused", "init_send", "sleep"}
          /\ ws_pc'[ws] # "refused" => ws \in Range(active_connections')
          /\ ws_pc'[ws] = "sleep" <=> ws_init'[ws] = "skipped"
    /\ (ws_pc[ws] = "init_send" /\ ws_pc'[ws] # "init_send")
       => /\ ws_pc'[ws] = "sleep"
          /\ ws_init'[ws] = (IF ws \in ws_closed THEN "failed" ELSE "sent")
    /\ (ws_pc[ws] = "sleep" /\ ws_pc'[ws] # "sleep")
       => ws_pc'[ws] = "ping_send"
    /\ (ws_pc[ws] = "ping_send" /\ ws_pc'[ws] # "ping_send")
       => /\ ws_pc'[ws] \in {"snap_send", "done", "send_failed"}
          /\ ws_pc'[ws] = "send_failed" <=> ws \in ws_closed
    /\ (ws_pc[ws] = "snap_send" /\ ws_pc'[ws] # "snap_send")
       => /\ ws_pc'[ws] \in {"sleep", "send_failed"}
          /\ ws_pc'[ws] = "send_failed" <=> ws \in ws_closed
    /\ ws_pc[ws] \in {"refused", "done", "send_failed"}
       => ws_pc'[ws] = ws_pc[ws]
    /\ ws_pc'[ws] \in {"done", "send_failed"} => ws \in ws_closed'

\* C23 amended: the handler registers the subscriber and sends an
\* immediate snapshot unless collecting it fails (then nothing is sent);
\* every cycle sends the ping first and the fresh snapshot only after the
\* ping was delivered and the collection succeeded; the cycles repeat
\* until a send or a collection fails, which ends the handler and the
\* connection.
C23_SnapshotUnlessCollectFails ==
    [][\A ws \in Subscribers : HandlerStep(ws)]_vars

\* A cycle's ping was delivered and its snapshot is being sent.
C23_Witness ==
    \E ws \in Subscribers :
        /\ ws_pc[ws] = "snap_send"
        /\ ws \notin ws_closed
        /\ ws \in Range(active_connections)

\* ------------------------------------------------------------------ C24
\* C24: broadcast_system_updates never ends because of an error: a cycle
\* in which the metrics collector raises (connect failure, pool exhausted)
\* is caught and followed by the 60 s back-off instead of the 30 s sleep,
\* after which another cycle runs; a broadcast raises nothing (its
\* iterator always points into the registry).
C24_LoopSurvivesErrors ==
    /\ bl_pc \in {"check", "send", "sleep30", "sleep60"}
    /\ bl_err <=> bl_pc = "sleep60"
    /\ bl_pc = "sleep60" => (bl_saw /\ bl_calls > 0)
    /\ bl_pc = "send" => bc_i \in 1..Len(active_connections)

\* A cycle whose collection failed at its first command is backing off.
C24_Witness ==
    /\ bl_pc = "sleep60"
    /\ bl_err
    /\ bl_calls = 1
    /\ active_connections # <<>>

\* ------------------------------------------------------------------ C25
\* A task is inside a call that waits for the remote host.
WaitsOnRemote(u) == task_pc[u] \in {"acquire", "exec"}

\* C25: while one task waits on the remote host (probe, connect, command
\* execution or output read), every other task that is ready can still be
\* resumed: a hanging remote command blocks only the task that issued it.
C25_OthersRunDuringRemoteWait ==
    \A u \in Tasks, v \in Tasks :
        (u # v /\ WaitsOnRemote(u) /\ task_pc[v] = "ready")
        => ENABLED Dispatch(v)

\* ------------------------------------------------------------------ C26
\* A restart request that passed authentication and names a type other
\* than service or container.
RestartOfUnknownType ==
    /\ http.route = "restart"
    /\ http.response.status_code # 401
    /\ http.input.type \notin {"service", "container"}

\* C26: a restart request whose type is neither service nor container is
\* rejected with status 400 and the detail "Type must be 'service' or
\* 'container'"; no remote command is executed and no channel is acquired.
C26_UnknownTypeIs400 ==
    RestartOfUnknownType =>
        /\ http.response.kind = "raised"
        /\ http.response.status_code = 400
        /\ http.response.detail = "Type must be 'service' or 'container'"
        /\ http.calls = <<>>
        /\ ~http.acquire_failed

\* ------------------------------------------------------------------ C27
\* The resolve request that was served carried the id of issue i of the
\* diagnostics report.
ResolvedIssue(i) ==
    /\ ResolveServed
    /\ http.input = IssueIdText(diag_out.issues[i].id)

\* The remediation that matches an issue: the cleanup for the disk issue,
\* the restart of the named service for a service issue.
MatchingCall(issue) ==
    IF issue.category = "service"
    THEN Call("sudo systemctl restart", issue.id[2], DefaultTimeout)
    ELSE CleanupCall

\* C27: every issue id that get_diagnostics emits round-trips through
\* resolve_issue: an issue with can_auto_resolve = true gets the matching
\* remediation (the cleanup for the disk issue, the restart of exactly the
\* named service for every monitored service) and an issue with
\* can_auto_resolve = false (cpu, memory) leads to no remote command.
C27_IssueIdsRoundTrip ==
    diag_out.kind = "ok" =>
        \A i \in 1..Len(diag_out.issues) :
            ResolvedIssue(i) =>
                http.calls = IF diag_out.issues[i].can_auto_resolve
                             THEN <<MatchingCall(diag_out.issues[i])>>
                             ELSE <<>>

\* Reached: with every reading high and every service inactive, the resolve
\* request for the redis-server issue restarted redis-server.
C27_Witness ==
    /\ diag_out.kind = "ok"
    /\ Len(diag_out.issues) = 3 + Len(MonitoredServices)
    /\ ResolveServed
    /\ http.input[1] = "service"
    /\ http.calls = <<Call("sudo systemctl restart", "redis-server",
                           DefaultTimeout)>>
    /\ http.response.kind = "return"
    /\ Len(http.response.body.actions_taken) = 1

\* ------------------------------------------------------------------ C28
\* C28: in the running server the acquire-execute-release sequence has no
\* suspension point: at every point where another task can run no channel
\* is checked out and the pool holds at most one channel, so an acquire
\* started there never finds the pool exhausted.
C28_NoChannelHeldAcrossTasks ==
    /\ Len(pool) <= 1
    /\ Cardinality(in_use) <= 1
    /\ ThreadFree(loop_running) =>
           /\ in_use = {}
           /\ loop_client = NoChannel
           /\ \A connectOk \in BOOLEAN :
                  get_connection(pool, in_use, alive, max_connections,
                                 connectOk).outcome # "exhausted"
    /\ \A u \in Tasks : WaitsOnRemote(u) <=> loop_running = u

\* Reached: a handler has acquired, executed and released; its channel is
\* pooled and idle although the pool has room for more, and another task is
\* ready to run.
C28_Witness ==
    /\ ThreadFree(loop_running)
    /\ Len(pool) = 1
    /\ in_use = {}
    /\ Len(pool) < max_connections
    /\ task_pc["r1"] = "idle"
    /\ task_pc["r2"] = "ready"

\* ------------------------------------------------------------------ C29
\* The fan-out of the current cycle has ended: the loop sleeps after a
\* broadcast that had subscribers when it began.
FanOutEnded == bl_pc = "sleep30" /\ bc_start # {}

C30_HealthNeverPropagates ==
    http.route = "health" =>
        /\ http.response.kind = "return"
        /\ http.calls = <<Call("echo 'connected'", "", 5)>>
        /\ IF http.acquire_failed
           THEN /\ http.response.body.status = "unhealthy"
                /\ http.response.body.error = http.result.detail
           ELSE /\ http.response.body.status = "healthy"
                /\ http.response.body.ssh_connection = http.result.success
                /\ http.result.success <=> http.result.exit_status = 0
        /\ in_use = {}

\* Reached: a health check without a valid credential, on a server that
\* requires one, found the remote host unreachable and answered
\* "unhealthy".
C30_Witness ==
    /\ http.route = "health"
    /\ auth_cfg.enable_auth
    /\ auth_cfg.api_key = "secret"
    /\ http.token # "secret"
    /\ http.acquire_failed
    /\ http.response.kind = "return"
    /\ http.response.body.status = "unhealthy"
    /\ in_use = {}
====
